---- MODULE Spec2Model ----
(***************************************************************************)
(* Business-time arithmetic and holiday provider of FechasHabilesAPI       *)
(* (src/src/businessTime.ts, src/src/holidays.ts,                          *)
(* src/src/fallbackHolidays.ts).                                           *)
(*                                                                         *)
(* A JavaScript Date is modelled by its absolute value in minutes since    *)
(* 1970-01-01T00:00Z (seconds and milliseconds are carried unchanged by    *)
(* every operation used here and are left out).  The date-fns accessors    *)
(* (getDay, getHours, getMinutes, setHours, setMinutes, addDays, subDays)  *)
(* read and write the fields of a Date in the time zone of the process,    *)
(* while Date.toISOString() prints the UTC fields.  The zone of the        *)
(* process is the variable sysTz (minutes east of UTC).                    *)
(***************************************************************************)
EXTENDS Integers, Sequences, FiniteSets, TLC

VARIABLES
    sysTz,        \* offset of the process time zone, minutes east of UTC
    holidays,     \* ColombianHolidays: a sequence of 'YYYY-MM-DD' strings
    pc,           \* "ready", or the name of the operation that has returned
    argDate,      \* the Date argument of the call (a set: {} is undefined)
    argDays,      \* businessDays argument ({} is undefined, {n} is n)
    argHours,     \* businessHours argument ({} is undefined, {n} is n)
    clock,        \* what new Date() returned during the call
    retDate,      \* the Date returned
    retAdjusted,  \* TimeAdjustment.wasAdjusted (adjustToPrevBusinessTime only)
    retBool,      \* the boolean returned (isHoliday, isBusinessDay)
    cache,        \* HolidaysService.cache ({} is null, {list} is the list)
    lastFetch,    \* HolidaysService.lastFetch
    circuitBreaker, \* HolidaysService.circuitBreaker
    calls,        \* per request: where its handler is suspended, and its locals
    results,      \* per request: what getColombianHolidays resolved to
    responses,    \* per request: the HTTP response sent
    statusResponse, \* what GET /holiday-status answered in the step just taken
                    \* ({} when the step was not that request)
    healthResponse  \* what GET /health answered in the step just taken
                    \* ({} when the step was not that request)

calcVars == <<pc, argDate, argDays, argHours, retDate, retAdjusted, retBool>>
providerVars ==
    <<cache, lastFetch, circuitBreaker, calls, results, responses, statusResponse,
      healthResponse>>
vars == <<sysTz, holidays, clock, calcVars, providerVars>>

-----------------------------------------------------------------------------
(* Bounds of the model *)

\* start dates are drawn from BaseDay .. BaseDay + NumDays
NumDays == 11
\* calculateBusinessTime is called on BaseDay .. BaseDay + NumCalcDays
NumCalcDays == 6
\* largest businessDays argument
MaxDays == 5
\* largest businessHours argument of addBusinessHours
MaxHours == 8
\* largest businessHours argument of calculateBusinessTime
MaxCalcHours == 4
\* no request is started once this many failures are on the circuit breaker
MaxFailureCount == 4
\* requests of GET /holiday-status?test=true being handled at the same time
MaxStatusTests == 1

-----------------------------------------------------------------------------
(* Calendar arithmetic of the JavaScript Date *)

MinutesPerDay == 24 * 60

\* days since 1970-01-01 of the proleptic Gregorian date y-m-d
DaysFromCivil(y, m, d) ==
    LET yy  == IF m <= 2 THEN y - 1 ELSE y
        era == yy \div 400
        yoe == yy - era * 400
        mp  == IF m > 2 THEN m - 3 ELSE m + 9
        doy == (153 * mp + 2) \div 5 + d - 1
        doe == yoe * 365 + yoe \div 4 - yoe \div 100 + doy
    IN  era * 146097 + doe - 719468

\* <<year, month, day>> of the day numbered z since 1970-01-01
\* (era: 400-year cycle, doe: day of era, yoe: year of era, doy: day of the
\* year counted from 1 March, mp: month counted from March)
CivilFromMonth(era, yoe, doy, mp) ==
    <<yoe + era * 400 + (IF mp < 10 THEN 0 ELSE 1),
      IF mp < 10 THEN mp + 3 ELSE mp - 9,
      doy - (153 * mp + 2) \div 5 + 1>>
CivilFromDayOfYear(era, yoe, doy) ==
    CivilFromMonth(era, yoe, doy, (5 * doy + 2) \div 153)
CivilFromYearOfEra(era, doe, yoe) ==
    CivilFromDayOfYear(era, yoe, doe - (365 * yoe + yoe \div 4 - yoe \div 100))
CivilFromDayOfEra(era, doe) ==
    CivilFromYearOfEra(era, doe,
        (doe - doe \div 1460 + doe \div 36524 - doe \div 146096) \div 365)
CivilFromEra(zz, era) == CivilFromDayOfEra(era, zz - era * 146097)
CivilFromDays(z) == CivilFromEra(z + 719468, (z + 719468) \div 146097)

Pad2(n) == IF n < 10 THEN "0" \o ToString(n) ELSE ToString(n)

\* date.toISOString().split('T')[0]: the UTC calendar date, 'YYYY-MM-DD'
FormatDate(c) == ToString(c[1]) \o "-" \o Pad2(c[2]) \o "-" \o Pad2(c[3])
\* Date.prototype.toISOString, seconds and milliseconds being zero
toISOString(date) ==
    FormatDate(CivilFromDays(date \div MinutesPerDay)) \o "T"
        \o Pad2((date % MinutesPerDay) \div 60) \o ":"
        \o Pad2(date % 60) \o ":00.000Z"

toISODateString(date) == FormatDate(CivilFromDays(date \div MinutesPerDay))

\* fields of a Date in the zone of the process
LocalMinutes(date) == date + sysTz
LocalDay(date) == LocalMinutes(date) \div MinutesPerDay
getDay(date) == (LocalDay(date) + 4) % 7          \* 1970-01-01 was a Thursday
getHours(date) == (LocalMinutes(date) % MinutesPerDay) \div 60
getMinutes(date) == LocalMinutes(date) % 60
setHours(date, h) == date + (h - getHours(date)) * 60
setMinutes(date, m) == date + (m - getMinutes(date))
addMinutes(date, n) == date + n
addDays(date, n) == date + n * MinutesPerDay
subDays(date, n) == addDays(date, 0 - n)

\* the Date whose fields in the zone of the process are day d, minute-of-day t
LocalDate(d, t) == d * MinutesPerDay + t - sysTz

-----------------------------------------------------------------------------
(* HolidaysService.isHoliday *)

\* Array.prototype.includes
includes(list, str) == \E i \in 1..Len(list) : list[i] = str

\* isHoliday that prints month and day without the leading zero
FormatDate_Unpadded(c) ==
    ToString(c[1]) \o "-" \o ToString(c[2]) \o "-" \o ToString(c[3])
isHoliday_Unpadded(date, hol) ==
    includes(hol, FormatDate_Unpadded(CivilFromDays(date \div MinutesPerDay)))

isHoliday(date, hol) == includes(hol, toISODateString(date))

-----------------------------------------------------------------------------
(* BusinessTimeCalculator *)

\* offset of 'America/Bogota', minutes east of UTC (no daylight saving)
COLOMBIA_TIMEZONE == -300

\* working hours with a lunch break of two hours
WORKING_HOURS_LongLunch == [start |-> 8, end |-> 17, lunchStart |-> 12, lunchEnd |-> 14]
WORKING_HOURS == [start |-> 8, end |-> 17, lunchStart |-> 12, lunchEnd |-> 13]

\* utcToZonedTime: the Date whose process-zone fields show the Bogota wall clock
utcToColombiaTime(utcDate) == utcDate + COLOMBIA_TIMEZONE - sysTz

\* zonedTimeToUtc: the instant at which Bogota shows the process-zone fields
colombiaTimeToUtc(colombiaDate) == colombiaDate + sysTz - COLOMBIA_TIMEZONE

\* utcToZonedTime(new Date(), ...); now is the value of new Date()
getCurrentColombiaTime(now) == utcToColombiaTime(now)

\* isBusinessDay that looks at the weekday only
isBusinessDay_WeekendsOnly(date, hol) ==
    LET dayOfWeek == getDay(date)
    IN  ~(dayOfWeek = 0 \/ dayOfWeek = 6)
isBusinessDay(date, hol) ==
    LET dayOfWeek == getDay(date)
    IN  IF dayOfWeek = 0 \/ dayOfWeek = 6
        THEN FALSE
        ELSE ~isHoliday(date, hol)

isWithinWorkingHours(date) ==
    LET totalMinutes      == getHours(date) * 60 + getMinutes(date)
        startMinutes      == WORKING_HOURS.start * 60
        lunchStartMinutes == WORKING_HOURS.lunchStart * 60
        lunchEndMinutes   == WORKING_HOURS.lunchEnd * 60
        endMinutes        == WORKING_HOURS.end * 60
    IN  \/ (totalMinutes >= startMinutes /\ totalMinutes < lunchStartMinutes)
        \/ (totalMinutes >= lunchEndMinutes /\ totalMinutes < endMinutes)

\* while (!isBusinessDay(d, hol)) d = subDays(d, 1)
RECURSIVE StepBackToBusinessDay(_, _)
StepBackToBusinessDay(date, hol) ==
    IF isBusinessDay(date, hol)
    THEN date
    ELSE StepBackToBusinessDay(subDays(date, 1), hol)

\* while (!isBusinessDay(d, hol)) d = addDays(d, 1)
RECURSIVE StepForwardToBusinessDay(_, _)
StepForwardToBusinessDay(date, hol) ==
    IF isBusinessDay(date, hol)
    THEN date
    ELSE StepForwardToBusinessDay(addDays(date, 1), hol)

\* hours * 60 + minutes
TotalMinutes(date) == getHours(date) * 60 + getMinutes(date)

\* the branches of adjustToPrevBusinessTime once the first loop has been decided
AdjustWithin(date, movedToPrevBusinessDay, totalMinutes, hol) ==
        IF movedToPrevBusinessDay
        THEN [date |-> setHours(setMinutes(StepBackToBusinessDay(date, hol), 0),
                                WORKING_HOURS.end),
              wasAdjusted |-> TRUE,
              reason |-> "Moved to next business day (weekend/holiday)"]
        ELSE IF totalMinutes < WORKING_HOURS.start * 60
        THEN [date |-> StepBackToBusinessDay(
                           setHours(setMinutes(subDays(date, 1), 0), WORKING_HOURS.end),
                           hol),
              wasAdjusted |-> TRUE,
              reason |-> "Adjusted to previoius business day end (5:00 PM)"]
        ELSE IF /\ totalMinutes >= WORKING_HOURS.lunchStart * 60
                /\ totalMinutes < WORKING_HOURS.lunchEnd * 60
        THEN [date |-> setHours(setMinutes(date, 0), WORKING_HOURS.lunchStart),
              wasAdjusted |-> TRUE,
              reason |-> "Adjusted to start of lunch break (12:00 PM)"]
        ELSE IF totalMinutes >= WORKING_HOURS.end * 60
        THEN [date |-> setHours(setMinutes(date, 0), WORKING_HOURS.end),
              wasAdjusted |-> TRUE,
              reason |-> "Adjusted to end of business day (after hours)"]
        ELSE [date |-> date, wasAdjusted |-> FALSE, reason |-> ""]

adjustToPrevBusinessTime(date, hol) ==
    AdjustWithin(date, ~isBusinessDay(date, hol), TotalMinutes(date), hol)

\* the while (remainingDays > 0) loop of addBusinessDays
RECURSIVE AddBusinessDaysLoop(_, _, _)
AddBusinessDaysLoop(currentDate, remainingDays, hol) ==
    IF remainingDays > 0
    THEN AddBusinessDaysLoop(addDays(currentDate, 1),
                             IF isBusinessDay(addDays(currentDate, 1), hol)
                             THEN remainingDays - 1
                             ELSE remainingDays,
                             hol)
    ELSE currentDate

addBusinessDays(startDate, businessDays, hol) ==
    IF businessDays = 0
    THEN startDate
    ELSE AddBusinessDaysLoop(startDate, businessDays, hol)

Max(a, b) == IF a >= b THEN a ELSE b

\* the while (remainingMinutes > 0) loop of addBusinessHours
RECURSIVE AddBusinessHoursLoop(_, _, _)

\* one pass of the loop body, from the adjusted currentDate
AddBusinessHoursStep(currentDate, currentTotalMinutes, remainingMinutes, hol) ==
    LET availableMinutesUntilLunch ==
            IF currentTotalMinutes < WORKING_HOURS.lunchStart * 60
            THEN WORKING_HOURS.lunchStart * 60 - currentTotalMinutes
            ELSE 0
        availableMinutesAfterLunch ==
            IF currentTotalMinutes < WORKING_HOURS.end * 60
            THEN WORKING_HOURS.end * 60
                     - Max(currentTotalMinutes, WORKING_HOURS.lunchEnd * 60)
            ELSE 0
        totalAvailableToday ==
            availableMinutesUntilLunch + availableMinutesAfterLunch
    IN  IF remainingMinutes <= totalAvailableToday
        THEN IF remainingMinutes <= availableMinutesUntilLunch
             THEN addMinutes(currentDate, remainingMinutes)
             ELSE addMinutes(
                      setHours(setMinutes(addMinutes(currentDate,
                                                     availableMinutesUntilLunch), 0),
                               WORKING_HOURS.lunchEnd),
                      remainingMinutes - availableMinutesUntilLunch)
        ELSE AddBusinessHoursLoop(
                 StepForwardToBusinessDay(
                     setHours(setMinutes(addDays(currentDate, 1), 0),
                              WORKING_HOURS.start),
                     hol),
                 remainingMinutes - totalAvailableToday,
                 hol)

AddBusinessHoursAdjusted(currentDate, remainingMinutes, hol) ==
    AddBusinessHoursStep(currentDate, TotalMinutes(currentDate), remainingMinutes, hol)

AddBusinessHoursLoop(date, remainingMinutes, hol) ==
    IF remainingMinutes > 0
    THEN AddBusinessHoursAdjusted(adjustToPrevBusinessTime(date, hol).date,
                                  remainingMinutes, hol)
    ELSE date

addBusinessHours(startDate, businessHours, hol) ==
    IF businessHours = 0
    THEN startDate
    ELSE AddBusinessHoursLoop(startDate, businessHours * 60, hol)

\* optional arguments: {} is undefined, {v} is the value v
Undefined == {}
Some(v) == {v}
ValueOf(opt) == CHOOSE v \in opt : TRUE
\* JavaScript truthiness of an optional number
Truthy(opt) == opt # Undefined /\ ValueOf(opt) # 0

\* if (businessDays && businessDays > 0) currentDate = addBusinessDays(...)
ApplyBusinessDays(currentDate, businessDays, hol) ==
    IF Truthy(businessDays) /\ ValueOf(businessDays) > 0
    THEN addBusinessDays(currentDate, ValueOf(businessDays), hol)
    ELSE currentDate

\* if (businessHours && businessHours > 0) currentDate = addBusinessHours(...)
ApplyBusinessHours(currentDate, businessHours, hol) ==
    IF Truthy(businessHours) /\ ValueOf(businessHours) > 0
    THEN addBusinessHours(currentDate, ValueOf(businessHours), hol)
    ELSE currentDate

\* startDate ? utcToColombiaTime(startDate) : getCurrentColombiaTime()
CalculationStart(now, startDate) ==
    IF startDate # Undefined
    THEN utcToColombiaTime(ValueOf(startDate))
    ELSE getCurrentColombiaTime(now)

\* calculateBusinessTime that snaps the start only when there is something to add
calculateBusinessTime_SnapOnlyWhenAdding(now, startDate, businessDays, businessHours, hol) ==
    colombiaTimeToUtc(
        ApplyBusinessHours(
            ApplyBusinessDays(
                IF \/ (Truthy(businessDays) /\ ValueOf(businessDays) > 0)
                   \/ (Truthy(businessHours) /\ ValueOf(businessHours) > 0)
                THEN adjustToPrevBusinessTime(CalculationStart(now, startDate), hol).date
                ELSE CalculationStart(now, startDate),
                businessDays, hol),
            businessHours, hol))

\* now: what new Date() returns during the call
calculateBusinessTime(now, startDate, businessDays, businessHours, hol) ==
    colombiaTimeToUtc(
        ApplyBusinessHours(
            ApplyBusinessDays(
                adjustToPrevBusinessTime(CalculationStart(now, startDate), hol).date,
                businessDays, hol),
            businessHours, hol))

-----------------------------------------------------------------------------
(* Static fallback holidays (fallbackHolidays.ts) *)

\* the entries of FALLBACK_COLOMBIAN_HOLIDAYS as year, month, day
FallbackDates ==
    << <<2024, 1, 1>>, <<2024, 1, 8>>, <<2024, 3, 25>>, <<2024, 3, 28>>,
       <<2024, 3, 29>>, <<2024, 5, 1>>, <<2024, 5, 13>>, <<2024, 6, 3>>,
       <<2024, 6, 10>>, <<2024, 7, 1>>, <<2024, 7, 20>>, <<2024, 8, 7>>,
       <<2024, 8, 19>>, <<2024, 10, 14>>, <<2024, 11, 4>>, <<2024, 11, 11>>,
       <<2024, 12, 8>>, <<2024, 12, 25>>,
       <<2025, 1, 1>>, <<2025, 1, 6>>, <<2025, 3, 24>>, <<2025, 4, 17>>,
       <<2025, 4, 18>>, <<2025, 5, 1>>, <<2025, 6, 2>>, <<2025, 6, 23>>,
       <<2025, 6, 30>>, <<2025, 6, 30>>, <<2025, 7, 20>>, <<2025, 8, 7>>,
       <<2025, 8, 18>>, <<2025, 10, 13>>, <<2025, 11, 3>>, <<2025, 11, 17>>,
       <<2025, 12, 8>>, <<2025, 12, 25>> >>

\* the list of 'YYYY-MM-DD' strings
FALLBACK_COLOMBIAN_HOLIDAYS ==
    [i \in 1..Len(FallbackDates) |-> FormatDate(FallbackDates[i])]

\* new Date('YYYY-MM-DD'): midnight UTC of that date
ParseISODate(c) == DaysFromCivil(c[1], c[2], c[3]) * MinutesPerDay

\* Date.prototype.getFullYear: the year in the zone of the process
getFullYear(date) == CivilFromDays(LocalDay(date))[1]

\* the indices of the entries the filter callback keeps
FallbackIndicesKept(startYear, endYear) ==
    LET Keep(i) ==
            LET year == getFullYear(ParseISODate(FallbackDates[i]))
                afterStart == startYear = 0 \/ year >= startYear
                beforeEnd == endYear = 0 \/ year <= endYear
            IN  afterStart /\ beforeEnd
    IN  SelectSeq([i \in 1..Len(FallbackDates) |-> i], Keep)

\* a missing year is 0 (!startYear)
getFallbackHolidays(startYear, endYear) ==
    IF startYear = 0 /\ endYear = 0
    THEN FALLBACK_COLOMBIAN_HOLIDAYS
    ELSE LET kept == FallbackIndicesKept(startYear, endYear)
         IN  [k \in 1..Len(kept) |-> FALLBACK_COLOMBIAN_HOLIDAYS[kept[k]]]

-----------------------------------------------------------------------------
(* HolidaysService: cache, circuit breaker, retries (holidays.ts).         *)
(* Date.now() is the variable clock, in minutes like every Date here.      *)

Null == {}

MillisecondsPerMinute == 60 * 1000
CACHE_DURATION == (24 * 60 * 60 * 1000) \div MillisecondsPerMinute
MAX_FAILURES == 3
CIRCUIT_TIMEOUT == (5 * 60 * 1000) \div MillisecondsPerMinute
MAX_RETRIES == 3

\* a cache that expires a minute early
CacheIsValid_ExpiresEarly(now) ==
    cache # Null /\ now - lastFetch < CACHE_DURATION - 1
\* if (this.cache && now - this.lastFetch < this.CACHE_DURATION)
CacheIsValid(now) == cache # Null /\ now - lastFetch < CACHE_DURATION

\* a circuit that is tried again as soon as the timeout is reached
isCircuitOpen_AtTimeout(cb, now) ==
    IF cb.state = "OPEN"
    THEN IF now - cb.lastFailureTime >= CIRCUIT_TIMEOUT
         THEN [open |-> FALSE, circuitBreaker |-> [cb EXCEPT !.state = "HALF_OPEN"]]
         ELSE [open |-> TRUE, circuitBreaker |-> cb]
    ELSE [open |-> FALSE, circuitBreaker |-> cb]
\* the value returned, and the circuit breaker the call leaves behind
isCircuitOpen(cb, now) ==
    IF cb.state = "OPEN"
    THEN IF now - cb.lastFailureTime > CIRCUIT_TIMEOUT
         THEN [open |-> FALSE, circuitBreaker |-> [cb EXCEPT !.state = "HALF_OPEN"]]
         ELSE [open |-> TRUE, circuitBreaker |-> cb]
    ELSE [open |-> FALSE, circuitBreaker |-> cb]

\* a circuit that a failed trial leaves as it found it
recordFailure_OpensFromClosedOnly(cb, now) ==
    [failures |-> cb.failures + 1,
     lastFailureTime |-> now,
     state |-> IF cb.failures + 1 >= MAX_FAILURES /\ cb.state = "CLOSED"
               THEN "OPEN" ELSE cb.state]
\* a circuit that opens one failure late
recordFailure_OpensLate(cb, now) ==
    [failures |-> cb.failures + 1,
     lastFailureTime |-> now,
     state |-> IF cb.failures + 1 > MAX_FAILURES THEN "OPEN" ELSE cb.state]
recordFailure(cb, now) ==
    [failures |-> cb.failures + 1,
     lastFailureTime |-> now,
     state |-> IF cb.failures + 1 >= MAX_FAILURES THEN "OPEN" ELSE cb.state]

\* a reset that clears the count and leaves the phase
resetCircuitBreaker_KeepsState(cb) == [cb EXCEPT !.failures = 0]
\* a reset that closes the circuit and keeps the count
resetCircuitBreaker_KeepsCount(cb) == [cb EXCEPT !.state = "CLOSED"]
resetCircuitBreaker(cb) == [cb EXCEPT !.failures = 0, !.state = "CLOSED"]

\* today: the value of new Date()
getFallbackResult(today) ==
    LET currentYear == getFullYear(today)
    IN  [holidays |-> getFallbackHolidays(currentYear, currentYear + 1),
         status |-> "FAILED",
         source |-> "FALLBACK",
         lastUpdated |-> Null]

\* return of the cache branch
CacheResult ==
    [holidays |-> ValueOf(cache),
     status |-> "HEALTHY",
     source |-> "CACHE",
     lastUpdated |-> Some(lastFetch)]

\* return after a successful fetchWithRetry
ApiResult(fetched, now) ==
    [holidays |-> fetched,
     status |-> "HEALTHY",
     source |-> "API",
     lastUpdated |-> Some(now)]

\* return of the catch branch: the cache if there is one, else the fallback
FailureResult(today) ==
    IF cache # Null
    THEN [holidays |-> ValueOf(cache),
          status |-> "DEGRADED",
          source |-> "CACHE",
          lastUpdated |-> Some(lastFetch)]
    ELSE getFallbackResult(today)

\* a snapshot that calls the cache degraded from the 24 h on
getServiceStatus_DegradedAtDuration(now) ==
    LET cacheAge == IF lastFetch # 0 THEN Some(now - lastFetch) ELSE Null
    IN  [status |->
             IF circuitBreaker.state = "OPEN" THEN "FAILED"
             ELSE IF cacheAge # Null /\ ValueOf(cacheAge) # 0
                       /\ ValueOf(cacheAge) >= CACHE_DURATION
                  THEN "DEGRADED"
                  ELSE "HEALTHY",
         circuitState |-> circuitBreaker.state,
         failures |-> circuitBreaker.failures,
         lastFetch |-> IF lastFetch # 0 THEN Some(lastFetch) ELSE Null,
         cacheAge |-> cacheAge]
\* the snapshot of getServiceStatus at the instant now
getServiceStatus(now) ==
    LET cacheAge == IF lastFetch # 0 THEN Some(now - lastFetch) ELSE Null
    IN  [status |->
             IF circuitBreaker.state = "OPEN" THEN "FAILED"
             ELSE IF cacheAge # Null /\ ValueOf(cacheAge) # 0
                       /\ ValueOf(cacheAge) > CACHE_DURATION
                  THEN "DEGRADED"
                  ELSE "HEALTHY",
         circuitState |-> circuitBreaker.state,
         failures |-> circuitBreaker.failures,
         lastFetch |-> IF lastFetch # 0 THEN Some(lastFetch) ELSE Null,
         cacheAge |-> cacheAge]

\* requests whose handlers may be running at the same time, in the order
\* they are taken into use
Callers == {1, 2}
\* the requests of a burst: two more arrive while the first are handled
BurstCallers == Callers \cup {3, 4}

\* validated query parameters (validation.parsedRequest); none yet
NoRequest == [startDate |-> {}, days |-> {}, hours |-> {}]

IdleCall ==
    [pc |-> "idle", now |-> 0, attempt |-> 0, fetches |-> 0, request |-> NoRequest,
     serviceStatus |-> Null]

\* the static fields as declared, and no request being handled
ProviderConstruction ==
    /\ cache = Null
    /\ lastFetch = 0
    /\ circuitBreaker = [failures |-> 0, lastFailureTime |-> 0, state |-> "CLOSED"]
    /\ calls = [c \in BurstCallers |-> IdleCall]
    /\ results = [c \in BurstCallers |-> Null]
    /\ responses = [c \in BurstCallers |-> Null]
    /\ statusResponse = Null
    /\ healthResponse = Null

-----------------------------------------------------------------------------
(* Inputs of the model *)

\* Thursday 2025-04-10, the first day of the window of start dates
BaseDay == DaysFromCivil(2025, 4, 10)
Days == {BaseDay + i : i \in 0..NumDays}
CalcDays == {BaseDay + i : i \in 0..NumCalcDays}

\* minutes of the day the calls are made at
TimesOfDay == {h * 60 + m : h \in 0..23, m \in {0, 30, 59}}
CalcTimesOfDay == {h * 60 : h \in 0..23} \cup {12 * 60 + 30, 16 * 60 + 30}

\* mockHolidays of the tests, no holidays, a holiday on a Saturday,
\* holidays on a Friday and the Monday after it
mockHolidays == <<"2025-04-17", "2025-04-18", "2025-12-25">>
HolidayLists ==
    { mockHolidays, << >>, <<"2025-04-12">>, <<"2025-04-14", "2025-04-11">> }

\* zones the process may run in: UTC, and America/Bogota
SystemZones == {0, COLOMBIA_TIMEZONE}

\* the instant at which the Bogota wall clock shows day d, minute-of-day t
ColombiaInstant(d, t) == d * MinutesPerDay + t - COLOMBIA_TIMEZONE

OptionalCount(max) == {Undefined} \cup {Some(n) : n \in 0..max}

-----------------------------------------------------------------------------
(* State machine: one call of one operation on drawn inputs *)

Init ==
    /\ sysTz \in SystemZones
    /\ holidays \in HolidayLists
    /\ pc = "ready"
    /\ argDate = Undefined
    /\ argDays = Undefined
    /\ argHours = Undefined
    /\ clock = 0
    /\ retDate = 0
    /\ retAdjusted = FALSE
    /\ retBool = FALSE
    /\ ProviderConstruction

CallIsHoliday ==
    /\ pc = "ready"
    /\ \E d \in Days, t \in TimesOfDay :
         LET date == LocalDate(d, t)
         IN  /\ argDate' = Some(date)
             /\ retBool' = isHoliday(date, holidays)
    /\ pc' = "isHoliday"
    /\ UNCHANGED <<sysTz, holidays, argDays, argHours, clock, retDate, retAdjusted>>
    /\ UNCHANGED providerVars

CallIsBusinessDay ==
    /\ pc = "ready"
    /\ \E d \in Days, t \in TimesOfDay :
         LET date == LocalDate(d, t)
         IN  /\ argDate' = Some(date)
             /\ retBool' = isBusinessDay(date, holidays)
    /\ pc' = "isBusinessDay"
    /\ UNCHANGED <<sysTz, holidays, argDays, argHours, clock, retDate, retAdjusted>>
    /\ UNCHANGED providerVars

CallAdjustToPrevBusinessTime ==
    /\ pc = "ready"
    /\ \E d \in Days, t \in TimesOfDay :
         LET date == LocalDate(d, t)
             adjustment == adjustToPrevBusinessTime(date, holidays)
         IN  /\ argDate' = Some(date)
             /\ retDate' = adjustment.date
             /\ retAdjusted' = adjustment.wasAdjusted
    /\ pc' = "adjustToPrevBusinessTime"
    /\ UNCHANGED <<sysTz, holidays, argDays, argHours, clock, retBool>>
    /\ UNCHANGED providerVars

CallAddBusinessDays ==
    /\ pc = "ready"
    /\ \E d \in Days, t \in TimesOfDay, n \in 0..MaxDays :
         LET date == LocalDate(d, t)
         IN  /\ argDate' = Some(date)
             /\ argDays' = Some(n)
             /\ retDate' = addBusinessDays(date, n, holidays)
    /\ pc' = "addBusinessDays"
    /\ UNCHANGED <<sysTz, holidays, argHours, clock, retAdjusted, retBool>>
    /\ UNCHANGED providerVars

CallAddBusinessHours ==
    /\ pc = "ready"
    /\ \E d \in Days, t \in TimesOfDay, n \in 0..MaxHours :
         LET date == LocalDate(d, t)
         IN  /\ argDate' = Some(date)
             /\ argHours' = Some(n)
             /\ retDate' = addBusinessHours(date, n, holidays)
    /\ pc' = "addBusinessHours"
    /\ UNCHANGED <<sysTz, holidays, argDays, clock, retAdjusted, retBool>>
    /\ UNCHANGED providerVars

CallCalculateBusinessTime ==
    /\ pc = "ready"
    /\ UNCHANGED <<sysTz, holidays, retAdjusted, retBool>>
    /\ UNCHANGED providerVars
    /\ \E d \in CalcDays, t \in CalcTimesOfDay, withStart \in BOOLEAN,
          days \in OptionalCount(MaxDays), hours \in OptionalCount(MaxCalcHours) :
         LET now == ColombiaInstant(d, t)
             startDate == IF withStart THEN Some(now) ELSE Undefined
         IN  /\ clock' = now
             /\ argDate' = startDate
             /\ argDays' = days
             /\ argHours' = hours
             /\ retDate' = calculateBusinessTime(now, startDate, days, hours, holidays)
    /\ pc' = "calculateBusinessTime"

Next ==
    \/ CallIsHoliday
    \/ CallIsBusinessDay
    \/ CallAdjustToPrevBusinessTime
    \/ CallAddBusinessDays
    \/ CallAddBusinessHours
    \/ CallCalculateBusinessTime

Spec == Init /\ [][Next]_vars

-----------------------------------------------------------------------------
(* State machine of the holiday provider behind GET                        *)
(* /calculate-business-time.  The handler and getColombianHolidays are     *)
(* async: a request runs from one await to the next in one step, and the   *)
(* steps of the requests in Callers interleave.  GET /holiday-status       *)
(* without test=true is synchronous and is answered in one step at any     *)
(* point in between.  In a burst the requests of BurstCallers overlap, one *)
(* each, within a minute.  With all the endpoints in service, GET          *)
(* /holiday-status?test=true awaits getColombianHolidays as the            *)
(* calculation does, and GET /health is answered in one step.              *)

\* Thursday 2025-04-10T15:00Z, when the first request can arrive
ProviderStart == BaseDay * MinutesPerDay + 15 * 60

\* response.data when it is an array
FetchedLists == {mockHolidays, << >>}

\* response.data when it is not an array: the JSON text of an object, held
\* in a sequence of its own so that it compares with the lists
NotAnArray == <<"{\"error\":\"unavailable\"}">>

\* how one axios.get ends: an array, another payload, a network error, the
\* 10 s timeout
Outcomes ==
    {[kind |-> "list", data |-> l] : l \in FetchedLists}
        \cup {[kind |-> "notAList", data |-> NotAnArray]}
        \cup {[kind |-> k, data |-> << >>] : k \in {"networkError", "timeout"}}

\* an attempt that takes whatever payload the response has
AttemptSucceeds_AnyPayload(outcome) == outcome.kind \in {"list", "notAList"}
\* the attempt returns response.data: axios.get resolved, and with an array
AttemptSucceeds(outcome) == outcome.kind = "list"

\* validated query parameters of the requests:
\* date=2025-04-16T20:00:00Z (Wednesday 15:00 Colombia-local), days=1
Requests ==
    { [startDate |-> Some(DaysFromCivil(2025, 4, 16) * MinutesPerDay + 20 * 60),
       days |-> Some(1), hours |-> Undefined] }

ProviderInit ==
    /\ sysTz \in SystemZones
    /\ holidays = << >>
    /\ pc = "ready"
    /\ argDate = Undefined
    /\ argDays = Undefined
    /\ argHours = Undefined
    /\ clock = ProviderStart
    /\ retDate = 0
    /\ retAdjusted = FALSE
    /\ retBool = FALSE
    /\ ProviderConstruction

\* getColombianHolidays resolves with result
Resolved(c, result) ==
    /\ results' = [results EXCEPT ![c] = Some(result)]
    /\ UNCHANGED responses

\* getColombianHolidays as called by the handler of request c, up to its
\* return or to the first axios.get of fetchWithRetry; request and
\* serviceStatus are the locals the handler holds over the await
CallGetColombianHolidays(c, request, serviceStatus) ==
    LET now == clock
        circuit == isCircuitOpen(circuitBreaker, now)
        returned == [pc |-> "returned", now |-> now, attempt |-> 0,
                     fetches |-> 0, request |-> request,
                     serviceStatus |-> serviceStatus]
    IN  IF CacheIsValid(now)
        THEN /\ Resolved(c, CacheResult)
             /\ calls' = [calls EXCEPT ![c] = returned]
             /\ UNCHANGED circuitBreaker
        ELSE /\ circuitBreaker' = circuit.circuitBreaker
             /\ IF circuit.open
                THEN /\ Resolved(c, getFallbackResult(clock))
                     /\ calls' = [calls EXCEPT ![c] = returned]
                ELSE /\ calls' = [calls EXCEPT ![c] =
                                    [pc |-> "request", now |-> now,
                                     attempt |-> 0, fetches |-> 1,
                                     request |-> request,
                                     serviceStatus |-> serviceStatus]]
                     /\ UNCHANGED <<results, responses>>

\* request c is the first of the requests that is not being handled
NextToArrive(c) ==
    /\ calls[c].pc = "idle"
    /\ \A d \in BurstCallers : d < c => calls[d].pc # "idle"
    /\ circuitBreaker.failures < MaxFailureCount

\* the handler of GET /calculate-business-time from the arrival of a valid
\* request to its await of getColombianHolidays
StartRequest(c) ==
    /\ NextToArrive(c)
    /\ \E request \in Requests : CallGetColombianHolidays(c, request, Null)
    /\ statusResponse' = Null
    /\ healthResponse' = Null
    /\ UNCHANGED <<sysTz, holidays, clock, calcVars, cache, lastFetch>>

\* the handler of GET /holiday-status?test=true from the arrival of the
\* request to its await of getColombianHolidays: the snapshot of
\* getServiceStatus is taken first and kept over the await
StartStatusTest(c) ==
    /\ NextToArrive(c)
    /\ Cardinality({d \in BurstCallers : calls[d].serviceStatus # Null})
           < MaxStatusTests
    /\ CallGetColombianHolidays(c, NoRequest, Some(getServiceStatus(clock)))
    /\ statusResponse' = Null
    /\ healthResponse' = Null
    /\ UNCHANGED <<sysTz, holidays, clock, calcVars, cache, lastFetch>>

\* an axios.get of fetchWithRetry settles: the array is returned, or the
\* attempt has failed and the loop sleeps before the next one, or after the
\* last attempt throws into the catch of getColombianHolidays
AxiosSettles(c) ==
    /\ calls[c].pc = "request"
    /\ \E outcome \in Outcomes :
         IF AttemptSucceeds(outcome)
         THEN /\ circuitBreaker' = resetCircuitBreaker(circuitBreaker)
              /\ cache' = Some(outcome.data)
              /\ lastFetch' = calls[c].now
              /\ Resolved(c, ApiResult(outcome.data, calls[c].now))
              /\ calls' = [calls EXCEPT ![c].pc = "returned"]
         ELSE IF calls[c].attempt < MAX_RETRIES
         THEN /\ calls' = [calls EXCEPT ![c].pc = "sleep",
                                        ![c].attempt = calls[c].attempt + 1]
              /\ UNCHANGED <<circuitBreaker, cache, lastFetch, results, responses>>
         ELSE /\ circuitBreaker' = recordFailure(circuitBreaker, calls[c].now)
              /\ Resolved(c, FailureResult(clock))
              /\ calls' = [calls EXCEPT ![c].pc = "returned"]
              /\ UNCHANGED <<cache, lastFetch>>
    /\ statusResponse' = Null
    /\ healthResponse' = Null
    /\ UNCHANGED <<sysTz, holidays, clock, calcVars>>

\* the backoff sleep before a retry is over: the next axios.get is sent
SleepEnds(c) ==
    /\ calls[c].pc = "sleep"
    /\ calls' = [calls EXCEPT ![c].pc = "request",
                              ![c].fetches = calls[c].fetches + 1]
    /\ statusResponse' = Null
    /\ healthResponse' = Null
    /\ UNCHANGED <<sysTz, holidays, clock, calcVars, cache, lastFetch,
                   circuitBreaker, results, responses>>

\* a handler that refuses to answer from fallback data
HandlerResponse_RefusesFallback(request, result, today) ==
    IF result.status = "FAILED"
    THEN [status |-> 503,
          headers |-> [XHolidayServiceStatus |-> result.status,
                       XHolidayDataSource |-> result.source,
                       XHolidayLastUpdated |-> "never"],
          body |-> [date |-> ""]]
    ELSE [status |-> 200,
          headers |->
              [XHolidayServiceStatus |-> result.status,
               XHolidayDataSource |-> result.source,
               XHolidayLastUpdated |->
                   IF result.lastUpdated # Null /\ ValueOf(result.lastUpdated) # 0
                   THEN toISOString(ValueOf(result.lastUpdated))
                   ELSE "never"],
          body |->
              [date |-> toISOString(
                   calculateBusinessTime(today, request.startDate, request.days,
                                         request.hours, result.holidays))]]
\* the response of the handler once getColombianHolidays has resolved:
\* headers, calculation, 200
HandlerResponse(request, result, today) ==
    [status |-> 200,
     headers |->
         [XHolidayServiceStatus |-> result.status,
          XHolidayDataSource |-> result.source,
          XHolidayLastUpdated |->
              IF result.lastUpdated # Null /\ ValueOf(result.lastUpdated) # 0
              THEN toISOString(ValueOf(result.lastUpdated))
              ELSE "never"],
     body |->
         [date |-> toISOString(
              calculateBusinessTime(today, request.startDate, request.days,
                                    request.hours, result.holidays))]]

\* the answer of GET /holiday-status?test=true: the snapshot taken when the
\* request arrived, and what the call of getColombianHolidays resolved to
StatusTestResponse(serviceStatus, testResult) ==
    [status |-> 200,
     body |-> [status |-> serviceStatus.status,
               circuitState |-> serviceStatus.circuitState,
               failures |-> serviceStatus.failures,
               lastFetch |-> serviceStatus.lastFetch,
               cacheAge |-> serviceStatus.cacheAge,
               testResult |-> [success |-> TRUE,
                               source |-> testResult.source,
                               status |-> testResult.status,
                               holidayCount |-> Len(testResult.holidays)]]]

\* the handler of GET /calculate-business-time resumes after await
\* getColombianHolidays and answers
Respond(c) ==
    /\ calls[c].pc = "returned"
    /\ calls[c].serviceStatus = Null
    /\ responses' = [responses EXCEPT ![c] =
           Some(HandlerResponse(calls[c].request, ValueOf(results[c]), clock))]
    /\ calls' = [calls EXCEPT ![c].pc = "responded"]
    /\ statusResponse' = Null
    /\ healthResponse' = Null
    /\ UNCHANGED <<sysTz, holidays, clock, calcVars, cache, lastFetch,
                   circuitBreaker, results>>

\* the handler of GET /holiday-status?test=true resumes after await
\* getColombianHolidays and answers
RespondStatusTest(c) ==
    /\ calls[c].pc = "returned"
    /\ calls[c].serviceStatus # Null
    /\ responses' = [responses EXCEPT ![c] =
           Some(StatusTestResponse(ValueOf(calls[c].serviceStatus),
                                   ValueOf(results[c])))]
    /\ calls' = [calls EXCEPT ![c].pc = "responded"]
    /\ statusResponse' = Null
    /\ healthResponse' = Null
    /\ UNCHANGED <<sysTz, holidays, clock, calcVars, cache, lastFetch,
                   circuitBreaker, results>>

\* the response has been sent: the request is over
EndRequest(c) ==
    /\ calls[c].pc = "responded"
    /\ calls' = [calls EXCEPT ![c] = IdleCall]
    /\ results' = [results EXCEPT ![c] = Null]
    /\ responses' = [responses EXCEPT ![c] = Null]
    /\ statusResponse' = Null
    /\ healthResponse' = Null
    /\ UNCHANGED <<sysTz, holidays, clock, calcVars, cache, lastFetch,
                   circuitBreaker>>

\* a status request that drops a CacheEntry older than 24 h
HolidayStatus_DropsStaleEntry ==
    /\ statusResponse' = Some([status |-> 200, body |-> getServiceStatus(clock)])
    /\ healthResponse' = Null
    /\ cache' = IF getServiceStatus(clock).status = "DEGRADED" THEN Null ELSE cache
    /\ UNCHANGED <<sysTz, holidays, clock, calcVars, lastFetch,
                   circuitBreaker, calls, results, responses>>
\* GET /holiday-status without test=true: the snapshot is answered with 200
HolidayStatus ==
    /\ statusResponse' = Some([status |-> 200, body |-> getServiceStatus(clock)])
    /\ healthResponse' = Null
    /\ UNCHANGED <<sysTz, holidays, clock, calcVars, cache, lastFetch,
                   circuitBreaker, calls, results, responses>>

\* the answer of GET /health at the instant now: 503 when the snapshot says
\* FAILED, else 200
HealthResponse(now) ==
    LET holidayServiceStatus == getServiceStatus(now)
        httpStatus == IF holidayServiceStatus.status = "FAILED" THEN 503 ELSE 200
    IN  [status |-> httpStatus,
         body |->
             [status |-> IF httpStatus = 503 THEN "DEGRADED" ELSE "OK",
              timestamp |-> toISOString(now),
              services |->
                  [holiday |->
                      [status |-> holidayServiceStatus.status,
                       circuitBreaker |-> holidayServiceStatus.circuitState,
                       failures |-> holidayServiceStatus.failures,
                       lastFetch |->
                           IF holidayServiceStatus.lastFetch # Null
                           THEN Some(toISOString(
                                    ValueOf(holidayServiceStatus.lastFetch)))
                           ELSE Null,
                       cacheAgeMs |-> holidayServiceStatus.cacheAge]]]]

\* GET /health: answered in one step from the snapshot
Health ==
    /\ healthResponse' = Some(HealthResponse(clock))
    /\ statusResponse' = Null
    /\ UNCHANGED <<sysTz, holidays, clock, calcVars, cache, lastFetch,
                   circuitBreaker, calls, results, responses>>

InFlight(c) == calls[c].pc \in {"request", "sleep"}

\* the instants at which requests arrive: the start and a minute later, and
\* the circuit timeout and the cache duration after the start, to the minute
\* and a minute later; counted from the start or from the minute after it,
\* they lie a minute before, at, and a minute after the two durations
Instants ==
    {ProviderStart + k :
        k \in {0, 1,
               CIRCUIT_TIMEOUT, CIRCUIT_TIMEOUT + 1,
               CACHE_DURATION, CACHE_DURATION + 1}}

\* time passes: to a later instant between requests, by one minute over a
\* request in flight (a call lasts less than a minute), not at all before an
\* answered request is over
Tick ==
    /\ \A c \in Callers : calls[c].pc \notin {"returned", "responded"}
    /\ \E t \in Instants :
         /\ t > clock
         /\ (\E c \in Callers : InFlight(c)) =>
                /\ t = clock + 1
                /\ \A c \in Callers : InFlight(c) => calls[c].now = clock
         /\ clock' = t
    /\ statusResponse' = Null
    /\ healthResponse' = Null
    /\ UNCHANGED <<sysTz, holidays, calcVars, cache, lastFetch, circuitBreaker,
                   calls, results, responses>>

ProviderNext ==
    \/ \E c \in Callers : StartRequest(c)
    \/ \E c \in Callers : AxiosSettles(c)
    \/ \E c \in Callers : SleepEnds(c)
    \/ \E c \in Callers : Respond(c)
    \/ \E c \in Callers : EndRequest(c)
    \/ HolidayStatus
    \/ Tick

ProviderSpec == ProviderInit /\ [][ProviderNext]_vars

\* every axios.get settles (its timeout is 10 s), every sleep ends
ProviderFairSpec ==
    /\ ProviderSpec
    /\ \A c \in Callers : WF_vars(AxiosSettles(c)) /\ WF_vars(SleepEnds(c))

\* a burst of requests: the requests of BurstCallers arrive within the same
\* minute, one each, and are followed until they have been answered
BurstNext ==
    \/ \E c \in BurstCallers : StartRequest(c)
    \/ \E c \in BurstCallers : AxiosSettles(c)
    \/ \E c \in BurstCallers : SleepEnds(c)
    \/ \E c \in BurstCallers : Respond(c)

\* the process runs in America/Bogota
BurstInit == ProviderInit /\ sysTz = COLOMBIA_TIMEZONE

BurstSpec == BurstInit /\ [][BurstNext]_vars

\* the three endpoints together: requests of GET /calculate-business-time
\* and of GET /holiday-status?test=true overlap, GET /holiday-status and
\* GET /health are answered at any point in between
ServiceNext ==
    \/ \E c \in Callers : StartRequest(c)
    \/ \E c \in Callers : StartStatusTest(c)
    \/ \E c \in Callers : AxiosSettles(c)
    \/ \E c \in Callers : SleepEnds(c)
    \/ \E c \in Callers : Respond(c)
    \/ \E c \in Callers : RespondStatusTest(c)
    \/ \E c \in Callers : EndRequest(c)
    \/ HolidayStatus
    \/ Health
    \/ Tick

\* the process runs in America/Bogota
ServiceInit == ProviderInit /\ sysTz = COLOMBIA_TIMEZONE

ServiceSpec == ServiceInit /\ [][ServiceNext]_vars

-----------------------------------------------------------------------------
(* Vocabulary of the properties: civil (Bogota wall-clock) dates.          *)
(* A civil Date shows the Bogota wall clock in its process-zone fields.    *)

CivilDay(date) == LocalDay(date)
CivilTime(date) == LocalMinutes(date) % MinutesPerDay
CivilDateString(day) ==
    LET c == CivilFromDays(day)
    IN  ToString(c[1]) \o "-" \o Pad2(c[2]) \o "-" \o Pad2(c[3])
IsWeekday(day) == (day + 4) % 7 \in 1..5
InHolidayList(day, hol) == \E i \in 1..Len(hol) : hol[i] = CivilDateString(day)
\* Monday-Friday and not a holiday
BusinessDay(day, hol) == IsWeekday(day) /\ ~InHolidayList(day, hol)

Min(a, b) == IF a <= b THEN a ELSE b
\* business minutes of one business day that lie before minute-of-day t:
\* the minutes of [08:00,12:00) and [13:00,17:00)
WorkedBy(t) ==
    Min(Max(t - 8 * 60, 0), 4 * 60) + Min(Max(t - 13 * 60, 0), 4 * 60)

\* number of business minutes in [<<d1, t1>>, <<d2, t2>>), for <<d1,t1>> <= <<d2,t2>>
RECURSIVE BusinessMinutesBetween(_, _, _, _, _)
BusinessMinutesBetween(d1, t1, d2, t2, hol) ==
    IF d1 >= d2
    THEN IF BusinessDay(d1, hol) THEN WorkedBy(t2) - WorkedBy(t1) ELSE 0
    ELSE (IF BusinessDay(d1, hol) THEN WorkedBy(MinutesPerDay) - WorkedBy(t1) ELSE 0)
         + BusinessMinutesBetween(d1 + 1, 0, d2, t2, hol)

\* the n-th business day strictly after day (n >= 1)
RECURSIVE NthBusinessDayAfter(_, _, _)
NthBusinessDayAfter(day, n, hol) ==
    IF BusinessDay(day + 1, hol)
    THEN IF n = 1 THEN day + 1 ELSE NthBusinessDayAfter(day + 1, n - 1, hol)
    ELSE NthBusinessDayAfter(day + 1, n, hol)

\* the most recent business day strictly before day
RECURSIVE PrevBusinessDay(_, _)
PrevBusinessDay(day, hol) ==
    IF BusinessDay(day - 1, hol) THEN day - 1 ELSE PrevBusinessDay(day - 1, hol)

\* arguments of the call that has returned
ArgDate == ValueOf(argDate)
CountOf(opt) == IF opt = Undefined THEN 0 ELSE ValueOf(opt)
\* the start is on a business day at a time from 08:00 to 17:00
ClampedStart ==
    /\ BusinessDay(CivilDay(ArgDate), holidays)
    /\ CivilTime(ArgDate) >= 8 * 60
    /\ CivilTime(ArgDate) <= 17 * 60

-----------------------------------------------------------------------------
(* C1: calculateBusinessTime(start, days, hours, H) equals                 *)
(* toInstant(addBusinessHours(addBusinessDays(snap(toCivil(start)), days), *)
(* hours)), an absent count being a zero count: the snap-back is applied   *)
(* first in every call (with no days and no hours the result is the        *)
(* snapped instant), then the days, then the hours.                        *)

CalcStart == IF argDate # Undefined THEN ArgDate ELSE clock
CalcSnapped == adjustToPrevBusinessTime(utcToColombiaTime(CalcStart), holidays).date

C1_CalculateIsSnapThenDaysThenHours ==
    pc = "calculateBusinessTime" =>
        /\ retDate = colombiaTimeToUtc(
               addBusinessHours(
                   addBusinessDays(CalcSnapped, CountOf(argDays), holidays),
                   CountOf(argHours), holidays))
        /\ (CountOf(argDays) = 0 /\ CountOf(argHours) = 0
               => retDate = colombiaTimeToUtc(CalcSnapped))

\* an off-hours start with neither days nor hours, answered by an earlier instant
C1_Witness ==
    /\ pc = "calculateBusinessTime"
    /\ argDate # Undefined
    /\ CountOf(argDays) = 0
    /\ CountOf(argHours) = 0
    /\ retDate < ArgDate

-----------------------------------------------------------------------------
(* C2: from a start on a business day at a time from 08:00 to 17:00, the   *)
(* business minutes (minutes of business days in [08:00,12:00) or          *)
(* [13:00,17:00)) between the start and addBusinessHours(start, n, H) are  *)
(* exactly 60*n for n >= 1; 08:00 plus 8 hours is 17:00 the same day.      *)

C2_HoursAreBusinessMinutes ==
    (pc = "addBusinessHours" /\ ValueOf(argHours) >= 1 /\ ClampedStart) =>
        /\ retDate >= ArgDate
        /\ BusinessMinutesBetween(CivilDay(ArgDate), CivilTime(ArgDate),
                                  CivilDay(retDate), CivilTime(retDate),
                                  holidays) = 60 * ValueOf(argHours)
        /\ (CivilTime(ArgDate) = 8 * 60 /\ ValueOf(argHours) = 8
               => /\ CivilDay(retDate) = CivilDay(ArgDate)
                  /\ CivilTime(retDate) = 17 * 60)

-----------------------------------------------------------------------------
(* C3: for a clamped start (every result of adjustToPrevBusinessTime has a *)
(* time of day from 08:00 to 17:00) and n > 0, addBusinessDays(x, n, H)    *)
(* and addBusinessHours(x, n, H) are strictly later than x.                *)

StartInsideDay ==
    CivilTime(ArgDate) >= 8 * 60 /\ CivilTime(ArgDate) <= 17 * 60

C3_MonotonicAdvance ==
    /\ (pc = "addBusinessDays" /\ ValueOf(argDays) > 0 /\ StartInsideDay)
           => retDate > ArgDate
    /\ (pc = "addBusinessHours" /\ ValueOf(argHours) > 0 /\ StartInsideDay)
           => retDate > ArgDate

-----------------------------------------------------------------------------
(* C4: a start inside a working session of a business day plus n hours     *)
(* that do not pass the end of that session (12:00 in the morning, 17:00   *)
(* in the afternoon) is the start plus n hours on the same day.            *)

FitsInSession(t, n) ==
    \/ (t >= 8 * 60 /\ t < 12 * 60 /\ t + 60 * n <= 12 * 60)
    \/ (t >= 13 * 60 /\ t < 17 * 60 /\ t + 60 * n <= 17 * 60)

C4_SameSessionIsPlainAddition ==
    (/\ pc = "addBusinessHours"
     /\ ValueOf(argHours) >= 1
     /\ BusinessDay(CivilDay(ArgDate), holidays)
     /\ FitsInSession(CivilTime(ArgDate), ValueOf(argHours))) =>
        /\ retDate = ArgDate + 60 * ValueOf(argHours)
        /\ CivilDay(retDate) = CivilDay(ArgDate)

-----------------------------------------------------------------------------
(* C5: for every civil start x and n >= 1, addBusinessDays(x, n, H) is on  *)
(* the n-th business day strictly after the day of x, at the time of day   *)
(* of x.                                                                   *)

C5_DaysLandOnNthBusinessDay ==
    (pc = "addBusinessDays" /\ ValueOf(argDays) >= 1) =>
        /\ CivilDay(retDate)
               = NthBusinessDayAfter(CivilDay(ArgDate), ValueOf(argDays), holidays)
        /\ CivilTime(retDate) = CivilTime(ArgDate)

-----------------------------------------------------------------------------
(* C6: on a business day adjustToPrevBusinessTime returns a time inside    *)
(* [08:00,12:00) or [13:00,17:00) unchanged with wasAdjusted = false; a    *)
(* time before 08:00 becomes 17:00 of the nearest earlier business day, a  *)
(* time in [12:00,13:00) becomes 12:00 the same day, a time at or after    *)
(* 17:00 becomes 17:00 the same day, each with wasAdjusted = true.         *)

C6_AdjustOnBusinessDay ==
    (pc = "adjustToPrevBusinessTime" /\ BusinessDay(CivilDay(ArgDate), holidays)) =>
        LET day == CivilDay(ArgDate)
            t   == CivilTime(ArgDate)
        IN  IF t < 8 * 60
            THEN /\ CivilDay(retDate) = PrevBusinessDay(day, holidays)
                 /\ CivilTime(retDate) = 17 * 60
                 /\ retAdjusted
            ELSE IF t >= 12 * 60 /\ t < 13 * 60
            THEN /\ CivilDay(retDate) = day
                 /\ CivilTime(retDate) = 12 * 60
                 /\ retAdjusted
            ELSE IF t >= 17 * 60
            THEN /\ CivilDay(retDate) = day
                 /\ CivilTime(retDate) = 17 * 60
                 /\ retAdjusted
            ELSE retDate = ArgDate /\ ~retAdjusted

-----------------------------------------------------------------------------
(* C7: on a day that is not a business day (weekend or holiday, any time   *)
(* of day) adjustToPrevBusinessTime returns 17:00 of the most recent       *)
(* earlier business day with wasAdjusted = true, never a later time.       *)

C7_AdjustOnNonBusinessDay ==
    (pc = "adjustToPrevBusinessTime" /\ ~BusinessDay(CivilDay(ArgDate), holidays)) =>
        /\ CivilDay(retDate) = PrevBusinessDay(CivilDay(ArgDate), holidays)
        /\ CivilTime(retDate) = 17 * 60
        /\ retAdjusted
        /\ retDate <= ArgDate

-----------------------------------------------------------------------------
(* C8: adjustToPrevBusinessTime is idempotent: adjusting its result again  *)
(* returns that result.                                                    *)

C8_AdjustIdempotent ==
    pc = "adjustToPrevBusinessTime" =>
        adjustToPrevBusinessTime(retDate, holidays).date = retDate

-----------------------------------------------------------------------------
(* C9: a start on a Friday at or after 17:00, or at any time of the        *)
(* Saturday or Sunday after it, the Friday and the following Monday being  *)
(* business days, with hours = 1 and no days, gives the following Monday   *)
(* at 09:00 Colombia-local.                                                *)

\* Bogota wall clock of an instant
ColombiaDay(instant) == (instant + COLOMBIA_TIMEZONE) \div MinutesPerDay
ColombiaMinute(instant) == (instant + COLOMBIA_TIMEZONE) % MinutesPerDay
Weekday(day) == (day + 4) % 7

\* the Friday a start at or after Friday 17:00 or in the weekend belongs to
FridayOf(day) == day - ((Weekday(day) + 2) % 7)

SnapsToFriday17(instant) ==
    LET day == ColombiaDay(instant)
    IN  \/ Weekday(day) = 5 /\ ColombiaMinute(instant) >= 17 * 60
        \/ Weekday(day) = 6
        \/ Weekday(day) = 0

C9_FridayEveningPlusOneHour ==
    (/\ pc = "calculateBusinessTime"
     /\ argDate # Undefined
     /\ argDays = Undefined
     /\ argHours = Some(1)
     /\ SnapsToFriday17(ArgDate)
     /\ BusinessDay(FridayOf(ColombiaDay(ArgDate)), holidays)
     /\ BusinessDay(FridayOf(ColombiaDay(ArgDate)) + 3, holidays)) =>
        /\ ColombiaDay(retDate) = FridayOf(ColombiaDay(ArgDate)) + 3
        /\ ColombiaMinute(retDate) = 9 * 60

-----------------------------------------------------------------------------
(* C10: from 2025-04-10T15:00:00.000Z (Thursday 10:00 Colombia-local) with *)
(* days = 5 and hours = 4 and the holidays 2025-04-17 and 2025-04-18,      *)
(* calculateBusinessTime returns Monday 2025-04-21 at 15:00                *)
(* Colombia-local.                                                         *)

HasHoliday(hol, str) == \E i \in 1..Len(hol) : hol[i] = str

C10_EasterScenario ==
    (/\ pc = "calculateBusinessTime"
     /\ argDate = Some(DaysFromCivil(2025, 4, 10) * MinutesPerDay + 15 * 60)
     /\ argDays = Some(5)
     /\ argHours = Some(4)
     /\ HasHoliday(holidays, "2025-04-17")
     /\ HasHoliday(holidays, "2025-04-18")) =>
        /\ CivilFromDays(ColombiaDay(retDate)) = <<2025, 4, 21>>
        /\ ColombiaMinute(retDate) = 15 * 60

C10_Witness ==
    /\ pc = "calculateBusinessTime"
    /\ argDate = Some(DaysFromCivil(2025, 4, 10) * MinutesPerDay + 15 * 60)
    /\ argDays = Some(5)
    /\ argHours = Some(4)
    /\ HasHoliday(holidays, "2025-04-17")
    /\ HasHoliday(holidays, "2025-04-18")
    /\ retDate = DaysFromCivil(2025, 4, 21) * MinutesPerDay + 20 * 60

-----------------------------------------------------------------------------
(* C11: a request with date = 2025-04-10T20:00:00Z (Thursday 15:00         *)
(* Colombia-local), days = 5 and hours = 4, with 2025-04-17 and 2025-04-18 *)
(* in the holiday set, skips the holidays of April 17 and 18 and gives a   *)
(* result whose Colombia-local date is April 21.                           *)

README_Scenario4 ==
    /\ pc = "calculateBusinessTime"
    /\ argDate = Some(DaysFromCivil(2025, 4, 10) * MinutesPerDay + 20 * 60)
    /\ argDays = Some(5)
    /\ argHours = Some(4)
    /\ HasHoliday(holidays, "2025-04-17")
    /\ HasHoliday(holidays, "2025-04-18")

C11_HolidayScenarioEndsApril21 ==
    README_Scenario4 => CivilFromDays(ColombiaDay(retDate)) = <<2025, 4, 21>>

(* C11 as the code computes it: the five days skip the holidays of April   *)
(* 17 and 18 and end on Monday April 21 at 15:00, and the four hours, of   *)
(* which two are left on that Monday, end on Tuesday April 22 at 10:00     *)
(* Colombia-local.                                                         *)
C11_HolidayScenarioEndsApril22 ==
    README_Scenario4 =>
        /\ colombiaTimeToUtc(addBusinessDays(CalcSnapped, 5, holidays))
               = ColombiaInstant(DaysFromCivil(2025, 4, 21), 15 * 60)
        /\ CivilFromDays(ColombiaDay(retDate)) = <<2025, 4, 22>>
        /\ ColombiaMinute(retDate) = 10 * 60

C11_Witness ==
    /\ README_Scenario4
    /\ retDate = ColombiaInstant(DaysFromCivil(2025, 4, 22), 10 * 60)

-----------------------------------------------------------------------------
(* C12: for a start on a day that is not a business day, with days = n >= 1 *)
(* and no hours, calculateBusinessTime returns 17:00 on the n-th business  *)
(* day after the business day the start was snapped back to (Sunday 18:00  *)
(* plus 1 day is Monday 17:00); for a start during lunch on a business day *)
(* it returns 12:00 on the n-th business day after that day.               *)

C12_DaysFromOffHoursStart ==
    (pc = "calculateBusinessTime" /\ CountOf(argDays) >= 1 /\ argHours = Undefined) =>
        LET day == ColombiaDay(CalcStart)
            t   == ColombiaMinute(CalcStart)
            n   == CountOf(argDays)
        IN  /\ ~BusinessDay(day, holidays) =>
                  /\ ColombiaDay(retDate)
                         = NthBusinessDayAfter(PrevBusinessDay(day, holidays), n, holidays)
                  /\ ColombiaMinute(retDate) = 17 * 60
            /\ (BusinessDay(day, holidays) /\ t >= 12 * 60 /\ t < 13 * 60) =>
                  /\ ColombiaDay(retDate) = NthBusinessDayAfter(day, n, holidays)
                  /\ ColombiaMinute(retDate) = 12 * 60

-----------------------------------------------------------------------------
(* C13: isBusinessDay(d, H) is true iff the civil (Colombia-local) weekday *)
(* of d is Monday to Friday and the civil year-month-day of d is not a     *)
(* member of H, at every civil time of day of d; isHoliday tests exactly   *)
(* that civil date, and with H empty weekends are still not business days. *)

C13_BusinessDayIsCivilWeekdayNotHoliday ==
    /\ pc = "isHoliday" =>
           (retBool <=> InHolidayList(CivilDay(ArgDate), holidays))
    /\ pc = "isBusinessDay" =>
           (retBool <=> BusinessDay(CivilDay(ArgDate), holidays))
    /\ (pc = "isBusinessDay" /\ holidays = << >> /\ ~IsWeekday(CivilDay(ArgDate)))
           => ~retBool

-----------------------------------------------------------------------------
(* Vocabulary of the provider properties *)

\* request c arrives in this step: its handler runs up to its first await
Arrives(c) == calls[c].pc = "idle" /\ calls'[c].pc # "idle"
\* the call of request c returns in this step without having fetched
ReturnsAtOnce(c) == Arrives(c) /\ calls'[c].pc = "returned"
\* the call of request c starts fetching in this step
StartsFetching(c) == Arrives(c) /\ calls'[c].pc = "request"
\* the fetch of request c ends in this step
FetchEnds(c) == calls[c].pc = "request" /\ calls'[c].pc = "returned"
\* a CacheEntry exists and is within its 24 h at the instant now
WithinTTL(now) == cache # Null /\ now - lastFetch < 24 * 60
\* the call of request c has returned
Returned(c) == calls[c].pc \in {"returned", "responded"}
\* request c has been answered
Answered(c) == calls[c].pc = "responded"
ResultOf(c) == ValueOf(results[c])

-----------------------------------------------------------------------------
(* C14: once a fetch has been recorded at instant t, every getHolidays     *)
(* call made at an instant now with now - t < 24 h returns the cached set  *)
(* with HEALTHY, CACHE and t, without any network access and without       *)
(* touching the cache; a call starts fetching over an existing CacheEntry  *)
(* only when now - t >= 24 h.                                              *)

C14_CacheServedWithinTTL ==
    [][\A c \in Callers :
          /\ (Arrives(c) /\ cache # Null /\ clock - lastFetch < 24 * 60) =>
                /\ ReturnsAtOnce(c)
                /\ calls'[c].fetches = 0
                /\ results'[c] = Some([holidays |-> ValueOf(cache),
                                       status |-> "HEALTHY",
                                       source |-> "CACHE",
                                       lastUpdated |-> Some(lastFetch)])
                /\ UNCHANGED <<cache, lastFetch, circuitBreaker>>
          /\ (StartsFetching(c) /\ cache # Null) => clock - lastFetch >= 24 * 60
      ]_vars

\* a call answered from the cache in the last minute of its 24 hours
C14_Witness ==
    \E c \in Callers :
        /\ Returned(c)
        /\ ResultOf(c).source = "CACHE"
        /\ ResultOf(c).status = "HEALTHY"
        /\ calls[c].fetches = 0
        /\ clock - lastFetch = 24 * 60 - 1

-----------------------------------------------------------------------------
(* C15: while the circuit is OPEN and less than 5 minutes have passed      *)
(* since lastFailureInstant, every getHolidays call not served by a cache  *)
(* within its 24 h (a stale CacheEntry may exist) returns the static       *)
(* fallback filtered to [currentYear, currentYear + 1] with FAILED,        *)
(* FALLBACK and lastUpdated = null, makes no network attempt, and leaves   *)
(* the phase OPEN and the failure count unchanged.                         *)

\* the entries of the static fallback dated in the years from..to
StaticFallbackOfYears(from, to) ==
    LET Keep(i) == FallbackDates[i][1] >= from /\ FallbackDates[i][1] <= to
        kept == SelectSeq([i \in 1..Len(FallbackDates) |-> i], Keep)
    IN  [k \in 1..Len(kept) |-> FALLBACK_COLOMBIAN_HOLIDAYS[kept[k]]]

\* the current year on the Colombian calendar
CurrentYear == CivilFromDays(ColombiaDay(clock))[1]

C15_OpenCircuitServesFallback ==
    [][\A c \in Callers :
          (/\ Arrives(c)
           /\ circuitBreaker.state = "OPEN"
           /\ clock - circuitBreaker.lastFailureTime < 5
           /\ ~WithinTTL(clock)) =>
              /\ ReturnsAtOnce(c)
              /\ calls'[c].fetches = 0
              /\ results'[c] =
                     Some([holidays |-> StaticFallbackOfYears(CurrentYear,
                                                              CurrentYear + 1),
                           status |-> "FAILED",
                           source |-> "FALLBACK",
                           lastUpdated |-> Null])
              /\ circuitBreaker'.state = "OPEN"
              /\ circuitBreaker'.failures = circuitBreaker.failures
      ]_vars

-----------------------------------------------------------------------------
(* C16: when the fetch of a getHolidays call succeeds, consecutiveFailures *)
(* becomes 0, the phase becomes CLOSED, the CacheEntry is replaced by the  *)
(* fetched set and the instant of the call, and the call returns the       *)
(* fetched set with HEALTHY, API and that instant, lastUpdated being the   *)
(* instant stored in the CacheEntry.                                       *)

\* the fetch of request c ends in this step with the list of the source
FetchSucceeds(c) == FetchEnds(c) /\ ValueOf(results'[c]).source = "API"

C16_SuccessResetsAndCaches ==
    [][\A c \in Callers :
          /\ (FetchEnds(c) /\ calls[c].attempt < 3) => FetchSucceeds(c)
          /\ FetchSucceeds(c) =>
                /\ circuitBreaker'.failures = 0
                /\ circuitBreaker'.state = "CLOSED"
                /\ cache' # Null
                /\ ValueOf(cache') \in FetchedLists
                /\ lastFetch' = calls[c].now
                /\ results'[c] = Some([holidays |-> ValueOf(cache'),
                                       status |-> "HEALTHY",
                                       source |-> "API",
                                       lastUpdated |-> Some(calls[c].now)])
                /\ ValueOf(results'[c]).lastUpdated = Some(lastFetch')
      ]_vars

\* a fetch that succeeded on a retry, after a failure had been recorded,
\* and replaced an older CacheEntry
C16_Witness ==
    \E c \in Callers :
        /\ Returned(c)
        /\ ResultOf(c).source = "API"
        /\ calls[c].attempt > 0
        /\ circuitBreaker.lastFailureTime > 0
        /\ circuitBreaker.failures = 0
        /\ circuitBreaker.state = "CLOSED"
        /\ lastFetch = ProviderStart + 24 * 60
        /\ cache = Some(ResultOf(c).holidays)

-----------------------------------------------------------------------------
(* C17: when a getHolidays call exhausts its retries it returns the cached *)
(* set with DEGRADED, CACHE and the fetch instant of the cache if any      *)
(* CacheEntry exists, even a stale one, and otherwise the fallback result  *)
(* (the static fallback filtered to [currentYear, currentYear + 1],        *)
(* FAILED, FALLBACK, null);                                                *)
(* consecutiveFailures grows by exactly one per such call, not per         *)
(* attempt, and lastFailureInstant becomes the now of that call.           *)

\* the fetch of request c ends in this step with its retries exhausted
FetchExhausted(c) == FetchEnds(c) /\ ValueOf(results'[c]).source # "API"
\* an attempt of request c that is not its last fails in this step
AttemptFails(c) == calls[c].pc = "request" /\ calls'[c].pc = "sleep"

\* every entry of the list is an entry of the static fallback
FromStaticFallback(list) ==
    \A i \in 1..Len(list) : includes(FALLBACK_COLOMBIAN_HOLIDAYS, list[i])

C17_ExhaustedRetriesDegrade ==
    [][\A c \in Callers :
          /\ FetchExhausted(c) =>
                /\ calls[c].attempt = 3
                /\ calls[c].fetches = 4
                /\ circuitBreaker'.failures = circuitBreaker.failures + 1
                /\ circuitBreaker'.lastFailureTime = calls[c].now
                /\ UNCHANGED <<cache, lastFetch>>
                /\ IF cache # Null
                   THEN results'[c] = Some([holidays |-> ValueOf(cache),
                                            status |-> "DEGRADED",
                                            source |-> "CACHE",
                                            lastUpdated |-> Some(lastFetch)])
                   ELSE results'[c] =
                            Some([holidays |->
                                      StaticFallbackOfYears(CurrentYear,
                                                            CurrentYear + 1),
                                  status |-> "FAILED",
                                  source |-> "FALLBACK",
                                  lastUpdated |-> Null])
          /\ AttemptFails(c) => UNCHANGED circuitBreaker
      ]_vars

-----------------------------------------------------------------------------
(* C18: getHolidays never fails because the holiday source is unavailable: *)
(* whatever the attempts end in (network error, timeout, a payload that is *)
(* not a list) and whatever the provider state, every call eventually      *)
(* returns a result carrying a holiday set (live, cached or static), and   *)
(* the calculation endpoint answers 200 with the provenance headers, also  *)
(* when the status is DEGRADED or FAILED.                                  *)

\* the result of request c carries a holiday set and says where it is from
CarriesHolidays(c) ==
    /\ results[c] # Null
    /\ \/ /\ ResultOf(c).source = "API"
          /\ ResultOf(c).status = "HEALTHY"
          /\ ResultOf(c).holidays \in FetchedLists
       \/ /\ ResultOf(c).source = "CACHE"
          /\ ResultOf(c).status \in {"HEALTHY", "DEGRADED"}
          /\ ResultOf(c).holidays \in FetchedLists
       \/ /\ ResultOf(c).source = "FALLBACK"
          /\ ResultOf(c).status = "FAILED"
          /\ FromStaticFallback(ResultOf(c).holidays)

\* the response to request c is a 200 with the provenance of its result and
\* the date computed with the holidays of its result
AnsweredOK(c) ==
    /\ responses[c] # Null
    /\ ValueOf(responses[c]).status = 200
    /\ ValueOf(responses[c]).headers.XHolidayServiceStatus = ResultOf(c).status
    /\ ValueOf(responses[c]).headers.XHolidayDataSource = ResultOf(c).source
    /\ ValueOf(responses[c]).body.date =
           toISOString(calculateBusinessTime(clock, calls[c].request.startDate,
                                             calls[c].request.days,
                                             calls[c].request.hours,
                                             ResultOf(c).holidays))

C18_AlwaysAnswers ==
    /\ [](\A c \in Callers : /\ (Returned(c) => CarriesHolidays(c))
                              /\ (Answered(c) => AnsweredOK(c)))
    /\ \A c \in Callers : (calls[c].pc \in {"request", "sleep"}) ~> Returned(c)

\* a request answered 200 from the static fallback after four failed attempts
C18_Witness ==
    \E c \in Callers :
        /\ Answered(c)
        /\ calls[c].fetches = 4
        /\ ResultOf(c).status = "FAILED"
        /\ Len(ResultOf(c).holidays) > 0
        /\ ValueOf(responses[c]).status = 200
        /\ ValueOf(responses[c]).headers.XHolidayServiceStatus = "FAILED"
        /\ ValueOf(responses[c]).headers.XHolidayDataSource = "FALLBACK"
        /\ ValueOf(responses[c]).headers.XHolidayLastUpdated = "never"

-----------------------------------------------------------------------------
(* C19: starting from phase CLOSED with consecutiveFailures = 0, the phase *)
(* becomes OPEN exactly when the third consecutive failed fetch is         *)
(* recorded: after one or two consecutive failures the phase is still      *)
(* CLOSED, and a success in between resets the count to 0, so that three   *)
(* further failures are needed.                                            *)

C19_OpensAtThirdFailure ==
    [][/\ circuitBreaker.state = "CLOSED" => circuitBreaker.failures <= 2
       /\ \A c \in Callers :
             /\ (FetchExhausted(c) /\ circuitBreaker.state = "CLOSED") =>
                   /\ circuitBreaker'.failures = circuitBreaker.failures + 1
                   /\ circuitBreaker'.state =
                          IF circuitBreaker'.failures = 3 THEN "OPEN" ELSE "CLOSED"
             /\ FetchSucceeds(c) =>
                   /\ circuitBreaker'.failures = 0
                   /\ circuitBreaker'.state = "CLOSED"
       /\ (circuitBreaker.state = "CLOSED" /\ circuitBreaker'.state # "CLOSED") =>
             /\ circuitBreaker'.state = "OPEN"
             /\ circuitBreaker'.failures = 3
             /\ \E c \in Callers : FetchExhausted(c)
       /\ circuitBreaker'.failures # circuitBreaker.failures =>
             \E c \in Callers : FetchExhausted(c) \/ FetchSucceeds(c)
      ]_vars

\* the third failure has just been recorded and has opened the circuit
C19_Witness ==
    \E c \in Callers :
        /\ Returned(c)
        /\ calls[c].fetches = 4
        /\ circuitBreaker.state = "OPEN"
        /\ circuitBreaker.failures = 3
        /\ circuitBreaker.lastFailureTime = calls[c].now

-----------------------------------------------------------------------------
(* C20: while the phase is OPEN, a getHolidays call (not served from a     *)
(* within-TTL cache) made at an instant now with now - lastFailureInstant  *)
(* >= 5 minutes (exactly 5 minutes included) moves the phase to HALF_OPEN  *)
(* and attempts one fetch; the phase never becomes HALF_OPEN from a phase  *)
(* other than OPEN, nor earlier than 5 minutes after lastFailureInstant.   *)

\* minutes since the last recorded failure
SinceLastFailure == clock - circuitBreaker.lastFailureTime
\* a call arrives in this step at an OPEN circuit, no within-TTL cache
ArrivesAtOpenCircuit(c) ==
    Arrives(c) /\ circuitBreaker.state = "OPEN" /\ ~WithinTTL(clock)
\* the call of request c moves the circuit to HALF_OPEN and sends a fetch
TriesTheCircuit(c) ==
    /\ circuitBreaker'.state = "HALF_OPEN"
    /\ StartsFetching(c)
    /\ calls'[c].fetches = 1
\* the phase becomes HALF_OPEN in this step
BecomesHalfOpen ==
    circuitBreaker.state # "HALF_OPEN" /\ circuitBreaker'.state = "HALF_OPEN"

C20_HalfOpenFromFiveMinutes ==
    [][/\ \A c \in Callers :
             (ArrivesAtOpenCircuit(c) /\ SinceLastFailure >= 5) =>
                 TriesTheCircuit(c)
       /\ BecomesHalfOpen =>
             /\ circuitBreaker.state = "OPEN"
             /\ SinceLastFailure >= 5
      ]_vars

(* C20 as the code has it: the phase moves to HALF_OPEN, and a fetch is    *)
(* attempted, when now - lastFailureInstant is strictly more than 5        *)
(* minutes; at exactly 5 minutes, as before, the phase stays OPEN and the  *)
(* call returns a FALLBACK result without fetching; the phase becomes      *)
(* HALF_OPEN only from OPEN, by such a call.                               *)
C20_HalfOpenAfterFiveMinutes ==
    [][/\ \A c \in Callers :
             /\ (ArrivesAtOpenCircuit(c) /\ SinceLastFailure > 5) =>
                    TriesTheCircuit(c)
             /\ (ArrivesAtOpenCircuit(c) /\ SinceLastFailure <= 5) =>
                    /\ circuitBreaker' = circuitBreaker
                    /\ ReturnsAtOnce(c)
                    /\ calls'[c].fetches = 0
                    /\ ValueOf(results'[c]).source = "FALLBACK"
       /\ BecomesHalfOpen =>
             /\ circuitBreaker.state = "OPEN"
             /\ SinceLastFailure > 5
             /\ \E c \in Callers : ArrivesAtOpenCircuit(c)
      ]_vars

\* a call made six minutes after the last failure is fetching, the phase
\* is HALF_OPEN
C20_Witness ==
    \E c \in Callers :
        /\ calls[c].pc = "request"
        /\ calls[c].fetches = 1
        /\ circuitBreaker.state = "HALF_OPEN"
        /\ calls[c].now - circuitBreaker.lastFailureTime = 6

-----------------------------------------------------------------------------
(* C21: the outcome of a HALF_OPEN trial resolves the phase at once: when  *)
(* the fetch of a call ends with the phase HALF_OPEN, a success leaves the *)
(* phase CLOSED with consecutiveFailures = 0, a failure leaves it OPEN     *)
(* with consecutiveFailures incremented and lastFailureInstant set anew to *)
(* the instant of the call, later than the one before, so that a new       *)
(* cooldown begins; the phase is HALF_OPEN only while a call is fetching.  *)

C21_TrialResolvesPhase ==
    [][/\ \A c \in Callers :
             (FetchEnds(c) /\ circuitBreaker.state = "HALF_OPEN") =>
                 /\ FetchSucceeds(c) =>
                       /\ circuitBreaker'.state = "CLOSED"
                       /\ circuitBreaker'.failures = 0
                 /\ FetchExhausted(c) =>
                       /\ circuitBreaker'.state = "OPEN"
                       /\ circuitBreaker'.failures = circuitBreaker.failures + 1
                       /\ circuitBreaker'.lastFailureTime = calls[c].now
                       /\ circuitBreaker'.lastFailureTime >
                              circuitBreaker.lastFailureTime + 5
       /\ circuitBreaker'.state = "HALF_OPEN" => \E c \in Callers : InFlight(c)'
      ]_vars

\* a trial has failed: the call has returned, the circuit is OPEN with a
\* fourth failure at the instant of the call, more than five minutes after
\* the start
C21_Witness ==
    \E c \in Callers :
        /\ Returned(c)
        /\ calls[c].fetches = 4
        /\ ResultOf(c).source # "API"
        /\ circuitBreaker.state = "OPEN"
        /\ circuitBreaker.failures = 4
        /\ circuitBreaker.lastFailureTime = calls[c].now
        /\ calls[c].now > ProviderStart + 5
        /\ \A d \in Callers \ {c} : calls[d].pc = "idle"

-----------------------------------------------------------------------------
(* C22: mutation of the cache and of the circuit-breaker state is          *)
(* serialized: two getHolidays calls that overlap in time and both miss    *)
(* the cache do not both issue live fetches, do not both count a failure   *)
(* for the same outage, and do not race on replacing the CacheEntry.       *)

\* the calls of requests c and d overlap: both are being handled
Overlap(c, d) == c # d /\ calls[c].pc # "idle" /\ calls[d].pc # "idle"
\* the call of request c has returned after counting a failure
CountedFailure(c) ==
    Returned(c) /\ calls[c].fetches = 4 /\ ResultOf(c).source # "API"
\* the call of request c has returned after replacing the CacheEntry
ReplacedCache(c) == Returned(c) /\ ResultOf(c).source = "API"

C22_MutationIsSerialized ==
    \A c, d \in Callers :
        Overlap(c, d) =>
            /\ ~(calls[c].fetches > 0 /\ calls[d].fetches > 0)
            /\ ~(CountedFailure(c) /\ CountedFailure(d))
            /\ ~(ReplacedCache(c) /\ ReplacedCache(d))

-----------------------------------------------------------------------------
(* C23: getServiceStatus reports FAILED iff the circuit phase is OPEN;     *)
(* otherwise DEGRADED iff a CacheEntry exists and its age is strictly      *)
(* greater than 24 h; otherwise HEALTHY (HALF_OPEN and CLOSED are never    *)
(* reported as FAILED); it also returns the phase, the failure count, the  *)
(* last fetch instant and the cache age; it performs no I/O and changes    *)
(* neither the cache nor the circuit-breaker state.                        *)

\* GET /holiday-status without test=true is answered in this step
StatusAnswered == statusResponse' # Null /\ statusResponse' # statusResponse
\* the snapshot answered in this step
Snapshot == ValueOf(statusResponse').body
\* GET /health is answered in this step
HealthAnswered == healthResponse' # Null /\ healthResponse' # healthResponse
\* what the answer of GET /health says of the holiday service
HealthReport == ValueOf(healthResponse').body.services.holiday
\* request c of GET /holiday-status?test=true arrives in this step: its
\* handler takes the snapshot and calls getHolidays
StatusTestArrives(c) == Arrives(c) /\ calls'[c].serviceStatus # Null
\* a CacheEntry exists
CacheEntryExists == cache # Null
\* the age of the CacheEntry, in minutes
CacheAge == clock - lastFetch
\* the status is the one the phase and the CacheEntry of this state call for
StatusAsClaimed(status) ==
    /\ status = "FAILED" <=> circuitBreaker.state = "OPEN"
    /\ circuitBreaker.state # "OPEN" =>
          (status = "DEGRADED" <=> (CacheEntryExists /\ CacheAge > 24 * 60))
    /\ status \in {"FAILED", "DEGRADED", "HEALTHY"}
\* the snapshot is the one of this state
SnapshotAsClaimed(snapshot) ==
    /\ StatusAsClaimed(snapshot.status)
    /\ snapshot.circuitState = circuitBreaker.state
    /\ snapshot.failures = circuitBreaker.failures
    /\ snapshot.lastFetch = (IF CacheEntryExists THEN Some(lastFetch) ELSE Null)
    /\ snapshot.cacheAge = (IF CacheEntryExists THEN Some(CacheAge) ELSE Null)

C23_StatusSnapshot ==
    [][/\ StatusAnswered =>
             /\ SnapshotAsClaimed(Snapshot)
             /\ UNCHANGED <<cache, lastFetch, circuitBreaker, calls, results,
                            responses, clock>>
       /\ HealthAnswered =>
             /\ StatusAsClaimed(HealthReport.status)
             /\ HealthReport.circuitBreaker = circuitBreaker.state
             /\ HealthReport.failures = circuitBreaker.failures
             /\ HealthReport.cacheAgeMs =
                    (IF CacheEntryExists THEN Some(CacheAge) ELSE Null)
             /\ UNCHANGED <<cache, lastFetch, circuitBreaker, calls, results,
                            responses, clock>>
       /\ \A c \in Callers :
             StatusTestArrives(c) =>
                 SnapshotAsClaimed(ValueOf(calls'[c].serviceStatus))
      ]_vars

\* a snapshot taken of a CacheEntry a minute older than 24 h, the circuit
\* not OPEN after a failed fetch: DEGRADED
C23_Witness ==
    /\ statusResponse # Null
    /\ ValueOf(statusResponse).body.status = "DEGRADED"
    /\ ValueOf(statusResponse).body.circuitState = "CLOSED"
    /\ ValueOf(statusResponse).body.failures > 0
    /\ ValueOf(statusResponse).body.cacheAge = Some(24 * 60 + 1)

-----------------------------------------------------------------------------
(* C24: in every reachable state of the provider, the states between the   *)
(* steps of interleaved concurrent getHolidays calls included, phase =     *)
(* OPEN implies consecutiveFailures >= 3.                                  *)

C24_OpenImpliesThreshold ==
    circuitBreaker.state = "OPEN" => circuitBreaker.failures >= 3

\* the circuit has been opened by one call while another is still fetching
C24_Witness ==
    \E c, d \in Callers :
        /\ c # d
        /\ CountedFailure(c)
        /\ InFlight(d)
        /\ circuitBreaker.state = "OPEN"
        /\ circuitBreaker.failures >= 3

-----------------------------------------------------------------------------
(* C25: fetchWithRetry makes at most 4 attempts in all (1 and 3 retries),  *)
(* makes a further attempt only after the one before has failed, sleeps    *)
(* before every attempt but the first, returns the list of the first       *)
(* successful attempt without attempting again, takes a response whose     *)
(* payload is not a list for a failed attempt and retries, and fails only  *)
(* after all 4 attempts have failed.                                       *)

\* request c sends an axios.get in this step
Attempts(c) == calls'[c].pc = "request" /\ calls[c].pc # "request"

C25_RetryDiscipline ==
    [][\A c \in Callers :
          /\ calls'[c].fetches <= 4
          /\ Attempts(c) =>
                /\ calls'[c].fetches = calls[c].fetches + 1
                /\ IF calls[c].fetches = 0
                   THEN Arrives(c)
                   ELSE calls[c].pc = "sleep"
          /\ ~Attempts(c) /\ calls'[c].pc # "idle" =>
                calls'[c].fetches = calls[c].fetches
          /\ (calls'[c].pc = "sleep" /\ calls[c].pc # "sleep") =>
                /\ AttemptFails(c)
                /\ calls[c].fetches < 4
          /\ FetchSucceeds(c) =>
                ValueOf(results'[c]).holidays \in FetchedLists
          /\ FetchExhausted(c) => calls[c].fetches = 4
          /\ (calls[c].pc = "request" /\ calls[c].fetches = 4) =>
                calls'[c].pc \in {"request", "returned"}
      ]_vars

\* a call has returned the list of its third attempt, after two failures
C25_Witness ==
    \E c \in Callers :
        /\ Returned(c)
        /\ calls[c].fetches = 3
        /\ ResultOf(c).source = "API"
        /\ ResultOf(c).holidays = mockHolidays

-----------------------------------------------------------------------------
(* C26: the CacheEntry (holiday set and fetch instant) is changed only by  *)
(* a getHolidays call whose fetch succeeded: a cache hit, the circuit-open *)
(* fast path, a call that exhausts its retries, and getServiceStatus all   *)
(* leave the holiday set and the fetch instant unchanged.                  *)

CacheEntryUnchanged == cache' = cache /\ lastFetch' = lastFetch

C26_CacheChangedOnlyBySuccess ==
    [][/\ ~CacheEntryUnchanged =>
             \E c \in Callers :
                 /\ FetchSucceeds(c)
                 /\ cache' = Some(ValueOf(results'[c]).holidays)
                 /\ lastFetch' = calls[c].now
       /\ \A c \in Callers :
             /\ ReturnsAtOnce(c) => CacheEntryUnchanged
             /\ FetchExhausted(c) => CacheEntryUnchanged
       /\ StatusAnswered => CacheEntryUnchanged
       /\ HealthAnswered => CacheEntryUnchanged
       /\ \A c \in Callers : StatusTestArrives(c) => CacheEntryUnchanged
      ]_vars

\* a status request has been answered DEGRADED for an entry older than
\* 24 h that a call that exhausted its retries has just returned: the
\* entry is still there
C26_Witness ==
    \E c \in Callers :
        /\ Returned(c)
        /\ calls[c].fetches = 4
        /\ ResultOf(c).status = "DEGRADED"
        /\ statusResponse # Null
        /\ ValueOf(statusResponse).body.status = "DEGRADED"
        /\ cache = Some(ResultOf(c).holidays)
        /\ Some(lastFetch) = ResultOf(c).lastUpdated
        /\ clock - lastFetch > 24 * 60

-----------------------------------------------------------------------------
(* C27: every output of adjustToPrevBusinessTime either satisfies          *)
(* isWithinWorkingHours (time of day in [08:00,12:00) or [13:00,17:00)) or *)
(* has the time of day exactly 17:00, for every input, those with a time   *)
(* of day in the lunch break included.                                     *)

\* minute-of-day t lies in [08:00,12:00) or [13:00,17:00)
InWorkingHours(t) ==
    (t >= 8 * 60 /\ t < 12 * 60) \/ (t >= 13 * 60 /\ t < 17 * 60)
\* minute-of-day t lies in the lunch break [12:00,13:00)
InLunchBreak(t) == t >= 12 * 60 /\ t < 13 * 60

C27_AdjustedInHoursOrAtEnd ==
    pc = "adjustToPrevBusinessTime" =>
        \/ InWorkingHours(CivilTime(retDate))
        \/ CivilTime(retDate) = 17 * 60

(* C27 as the code has it: the output satisfies isWithinWorkingHours, or   *)
(* has the time of day exactly 17:00, or exactly 12:00; it is 12:00        *)
(* exactly for the inputs on a business day with a time of day in the      *)
(* lunch break [12:00,13:00), which are moved to 12:00 of their day.       *)
C27_AdjustedInHoursOrAtNoonOrEnd ==
    pc = "adjustToPrevBusinessTime" =>
        /\ \/ InWorkingHours(CivilTime(retDate))
           \/ CivilTime(retDate) = 17 * 60
           \/ CivilTime(retDate) = 12 * 60
        /\ CivilTime(retDate) = 12 * 60 <=>
              /\ InLunchBreak(CivilTime(ArgDate))
              /\ BusinessDay(CivilDay(ArgDate), holidays)
        /\ CivilTime(retDate) = 12 * 60 => CivilDay(retDate) = CivilDay(ArgDate)

\* an input at 12:30 of a business day has been moved to 12:00
C27_Witness ==
    /\ pc = "adjustToPrevBusinessTime"
    /\ CivilTime(ArgDate) = 12 * 60 + 30
    /\ CivilTime(retDate) = 12 * 60
    /\ CivilDay(retDate) = CivilDay(ArgDate)
    /\ retAdjusted

-----------------------------------------------------------------------------
(* C28: in every reachable state, under any interleaving of getHolidays    *)
(* calls, the circuit is never OPEN while a CacheEntry within its 24 h     *)
(* exists; hence getServiceStatus never reports FAILED at an instant at    *)
(* which getHolidays would return HEALTHY from the cache.                  *)

C28_NeverOpenOverFreshCache ==
    /\ ~(circuitBreaker.state = "OPEN" /\ WithinTTL(clock))
    /\ ~(getServiceStatus(clock).status = "FAILED" /\ CacheIsValid(clock))

-----------------------------------------------------------------------------
(* C29: across any sequence or interleaving of getHolidays calls, the      *)
(* stored fetch instant (lastFetch) never decreases, and after all calls   *)
(* in flight have returned the CacheEntry holds the holiday set of the     *)
(* successful fetch with the latest fetch instant: a call that started     *)
(* earlier and finished later never overwrites a newer entry.              *)

C29_LastFetchNeverDecreases ==
    [][/\ lastFetch' >= lastFetch
       /\ \A c \in Callers :
             (FetchSucceeds(c) /\ cache # Null /\ calls[c].now < lastFetch) =>
                 CacheEntryUnchanged
      ]_vars

-----------------------------------------------------------------------------
(* C30: for every start instant, every days >= 0, hours >= 0 and every     *)
(* finite holiday set, the civil time of the result of                     *)
(* calculateBusinessTime lies on a business day (Monday-Friday, not in the *)
(* holiday set) with hour:minute in [08:00,12:00] or [13:00,17:00]; the    *)
(* result is never strictly inside the lunch break, before 08:00 or after  *)
(* 17:00.                                                                  *)

\* minute-of-day t lies in [08:00,12:00] or [13:00,17:00]
InBusinessSessions(t) ==
    (t >= 8 * 60 /\ t <= 12 * 60) \/ (t >= 13 * 60 /\ t <= 17 * 60)

C30_ResultIsBusinessTime ==
    pc = "calculateBusinessTime" =>
        /\ BusinessDay(ColombiaDay(retDate), holidays)
        /\ InBusinessSessions(ColombiaMinute(retDate))

====
